---- MODULE Spec2Model ----
(***************************************************************************)
(* Model of the ZAPI protocol client ZyxelMultyApi                         *)
(* (custom_components/zyxel_multy/api.py).                                 *)
(*                                                                         *)
(* One client instance is used by several asyncio tasks (the polling       *)
(* coordinator and the service handlers).  A step of the model is the code *)
(* a task runs between two suspension points: the only real suspension of  *)
(* the client is the HTTP exchange inside _request (session.post /         *)
(* resp.json).  The router's answer to an exchange is an input, drawn from *)
(* the set Replies.                                                        *)
(***************************************************************************)
EXTENDS Integers, Sequences, FiniteSets, TLC

(***************************************************************************)
(* Bounds of the model.                                                    *)
(***************************************************************************)
NumTasks == 2
Tasks == 1..NumTasks
\* the per-call request counters saturate here (never reached by the code:
\* a call sends at most two authenticates and two payloads)
CountCap == 3
Inc(n) == IF n < CountCap THEN n + 1 ELSE n

(***************************************************************************)
(* Values.                                                                 *)
(***************************************************************************)
None == "<None>"          \* Python None
Missing == "<missing>"    \* a key that is not in a mapping
Tokens == {"T1", "T2"}    \* bearer tokens the router hands out

HTTP_OK == 200
HTTP_UNAUTHORIZED == 401
\* a status that is neither of the two the code tells apart
OtherStatuses == {500}

\* Python truthiness of a token value: None and "" are falsy.
Truthy(v) == v \notin {None, Missing, ""}

(***************************************************************************)
(* Error tags are strings; they are modelled as sequences of characters so *)
(* that lower() and the substring test are computed, not assumed.          *)
(***************************************************************************)
TagEmpty == << >>
TagAccessDenied == <<"a","c","c","e","s","s","-","d","e","n","i","e","d">>
TagAuthUpper == <<"A","U","T","H","-","F","a","i","l","e","d">>
TagInvalidValue == <<"i","n","v","a","l","i","d","-","v","a","l","u","e">>
Tags == {TagEmpty, TagAccessDenied, TagAuthUpper, TagInvalidValue}

LowerChar(c) ==
  CASE c = "A" -> "a" [] c = "U" -> "u" [] c = "T" -> "t" [] c = "H" -> "h"
    [] c = "F" -> "f" [] c = "C" -> "c" [] c = "E" -> "e" [] c = "S" -> "s"
    [] OTHER -> c

Lower(s) == [i \in 1..Len(s) |-> LowerChar(s[i])]

Contains(s, sub) ==
  \E i \in 1..(Len(s) - Len(sub) + 1) : SubSeq(s, i, i + Len(sub) - 1) = sub

StrAuth == <<"a","u","t","h">>
StrAccess == <<"a","c","c","e","s","s">>

\* api.py:195  "auth" in error_tag.lower() or "access" in error_tag.lower()
IsAuthTag(tag) == Contains(Lower(tag), StrAuth) \/ Contains(Lower(tag), StrAccess)

(***************************************************************************)
(* Numeric error codes the router carries in rpc-error.error-message.      *)
(***************************************************************************)
CodeNone == "none"
CodeAccessDenied == "2002"
Codes == {CodeNone, CodeAccessDenied}

(***************************************************************************)
(* data[0] of a reply, as far as authenticate() looks at it: the value at  *)
(* authentication.output.token, at output.token, and the output.token of   *)
(* the first other mapping value that has an "output" key.                 *)
(***************************************************************************)
DataShape(a, o, x) == [authentication |-> a, output |-> o, other |-> x]
NoData == DataShape(Missing, Missing, Missing)
DataShapes ==
  { NoData,
    DataShape("T1", Missing, Missing),
    DataShape("T2", Missing, Missing),
    DataShape(Missing, "T1", Missing),
    DataShape(Missing, Missing, "T2"),
    DataShape("", "T1", Missing),
    DataShape(None, "T1", Missing) }

(***************************************************************************)
(* What one HTTP exchange can end in.  xfer says how the transfer ended:   *)
(* an HTTP response, an aiohttp.ClientError (connection level), or the     *)
(* total timeout (asyncio.TimeoutError, which is no aiohttp.ClientError).  *)
(***************************************************************************)
Reply(x, s, b, r, t, c, d) ==
  [xfer |-> x, status |-> s, body |-> b, result |-> r, tag |-> t, code |-> c, data |-> d,
   setCookie |-> None]

\* the same response with a Set-Cookie header for a session cookie
SetCookie(r, sc) == [r EXCEPT !.setCookie = sc]
SessionCookies == {"sess-1"}

NoReply == Reply("none", 0, "none", Missing, TagEmpty, CodeNone, NoData)

ConnReplies ==
  { Reply(x, 0, "none", Missing, TagEmpty, CodeNone, NoData) : x \in {"ClientError", "TimeoutError"} }

\* bodies that are no JSON object: not JSON at all, or empty (resp.json() gives None)
BadBodyReplies ==
  { Reply("response", s, b, Missing, TagEmpty, CodeNone, NoData) :
      s \in {HTTP_OK, HTTP_UNAUTHORIZED}, b \in {"malformed", "empty"} }

\* HTTP 200 with an rpc-reply that carries an rpc-error
ErrorReplies ==
  { Reply("response", HTTP_OK, "object", "failed", t, c, NoData) : t \in Tags, c \in Codes }
  \cup
  { Reply("response", HTTP_OK, "object", r, t, CodeNone, NoData) :
      r \in {"", Missing}, t \in {TagEmpty, TagAccessDenied} }

\* HTTP 200 with result "ok" (or no result) and data
DataReplies ==
  { Reply("response", HTTP_OK, "object", "ok", TagEmpty, CodeNone, d) : d \in DataShapes }
  \cup
  { Reply("response", HTTP_OK, "object", Missing, TagEmpty, CodeNone, DataShape("T1", Missing, Missing)) }

\* other HTTP statuses with a JSON object body
StatusReplies ==
  { Reply("response", HTTP_UNAUTHORIZED, "object", "failed", TagAccessDenied, CodeAccessDenied, NoData),
    Reply("response", HTTP_UNAUTHORIZED, "object", Missing, TagEmpty, CodeNone, NoData) }
  \cup
  { Reply("response", s, "object", Missing, TagEmpty, CodeNone, NoData) : s \in OtherStatuses }

Replies == ConnReplies \cup BadBodyReplies \cup ErrorReplies \cup DataReplies \cup StatusReplies

\* answers that set a session cookie: successful ones, with or without a
\* token in them, and a rejection
CookieReplies ==
  { SetCookie(r, sc) :
      r \in { Reply("response", HTTP_OK, "object", "ok", TagEmpty, CodeNone, d) :
                d \in {NoData, DataShape("T1", Missing, Missing), DataShape("T2", Missing, Missing)} }
            \cup { Reply("response", HTTP_UNAUTHORIZED, "object", Missing, TagEmpty, CodeNone, NoData) },
      sc \in SessionCookies }

(***************************************************************************)
(* Exception kinds.  ZapiAuthError is a subclass of ZapiError (api.py:34). *)
(***************************************************************************)
ZapiErrorFamily == {"ZapiError", "ZapiAuthError"}

\* api.py:189-190  reply.get("result", "")
GetResult(r) == IF r.result = Missing THEN "" ELSE r.result

(***************************************************************************)
(* _request (api.py:160-202): what the exchange makes _request raise,      *)
(* "none" when it returns response_data.  The order is the code's:         *)
(* resp.json() runs before the status is looked at.                        *)
(***************************************************************************)
RequestRaise(r) ==
  IF r.xfer = "ClientError" THEN "ZapiError"
  ELSE IF r.xfer = "TimeoutError" THEN "TimeoutError"
  ELSE IF r.body = "malformed" THEN "JSONDecodeError"
  ELSE IF r.status = HTTP_UNAUTHORIZED THEN "ZapiAuthError"
  ELSE IF r.status # HTTP_OK THEN "ZapiError"
  ELSE IF r.body = "empty" THEN "AttributeError"
  ELSE IF GetResult(r) # "" /\ GetResult(r) # "ok"
    THEN IF IsAuthTag(r.tag) THEN "ZapiAuthError" ELSE "ZapiError"
  ELSE "none"

\* RequestRaise over the replies of the model, computed once
RaiseTable == [r \in Replies \cup CookieReplies |-> RequestRaise(r)]

(***************************************************************************)
(* The cookie jar of the aiohttp session the client creates (api.py:90,    *)
(* default CookieJar): it stores the cookies the responses set and sends   *)
(* them back with the later requests, unless the host is an IP address,    *)
(* whose cookies it does not accept.  The client itself keeps the token    *)
(* only (api.py:79, 257) and passes it as the one cookie of the request    *)
(* (api.py:165-167, 176).                                                  *)
(***************************************************************************)
HostKinds == {"ip", "name"}
\* config_flow.py:20: the host the config form proposes, 192.168.212.1
DefaultHost == "ip"
JarAfter(h, j, r) ==
  IF r.xfer = "response" /\ r.setCookie # None /\ h = "name" THEN r.setCookie ELSE j

\* the first token installed is kept
InstalledTokenFirstWins(held, tk) == IF Truthy(held) THEN held ELSE tk

\* api.py:257  self._token = token
InstalledToken(held, tk) == tk

\* a token cleared on every error, not only on an authentication error
TokenAfterAnyError(tok, raised) == IF raised # "none" THEN None ELSE tok

\* a token cleared on every ZapiError _request raises
TokenAfterZapiError(tok, raised) == IF raised \in ZapiErrorFamily THEN None ELSE tok

\* api.py:183, 196: self._token = None goes with every ZapiAuthError _request raises
TokenAfterRequest(tok, raised) == IF raised = "ZapiAuthError" THEN None ELSE tok

\* api.py:165-167: the token cookie is attached when a token is held
RequestCookie(tok) == IF Truthy(tok) THEN tok ELSE None

(***************************************************************************)
(* authenticate (api.py:235-250): the first strategy that does not raise   *)
(* gives the token, whatever its value, and ends the loop.                 *)
(***************************************************************************)
\* the loop going on to the next strategy when one gives a falsy value
ExtractTokenFirstTruthy(r) ==
  IF Truthy(r.data.authentication) THEN r.data.authentication
  ELSE IF Truthy(r.data.output) THEN r.data.output
  ELSE IF Truthy(r.data.other) THEN r.data.other
  ELSE None

ExtractToken(r) ==
  IF r.data.authentication # Missing THEN r.data.authentication
  ELSE IF r.data.output # Missing THEN r.data.output
  ELSE IF r.data.other # Missing THEN r.data.other
  ELSE None

\* the test of the extracted token left out
AuthenticateRaisesAsRequest(raised, tk) == raised

\* api.py:233-255: authenticate lets through what _request raises, and
\* raises ZapiAuthError itself when the token it extracted is falsy
AuthenticateRaises(raised, tk) ==
  IF raised # "none" THEN raised
  ELSE IF ~Truthy(tk) THEN "ZapiAuthError"
  ELSE "none"

\* the lazy authenticate left out
NeedsAuthenticateNever(tok) == FALSE

\* api.py:265  if not self._token: await self.authenticate()
NeedsAuthenticate(tok) == ~Truthy(tok)

\* the retry written as a loop: every authentication error is retried
AbsorbsEveryAuthError(p, raised) == raised = "ZapiAuthError"

\* the handler written as "except ZapiError": every client error is retried once
AbsorbsAnyZapiError(p, raised) == p = "pay1" /\ raised \in ZapiErrorFamily

\* the second attempt inside the try as well
AbsorbsAtBothAttempts(p, raised) == p \in {"pay1", "pay2"} /\ raised = "ZapiAuthError"

\* the retry left out: the authentication error of the first attempt is raised
AbsorbsNothing(p, raised) == FALSE

\* api.py:268-273: only the first _request is inside the try, and only
\* ZapiAuthError is caught
Absorbs(p, raised) == p = "pay1" /\ raised = "ZapiAuthError"

(***************************************************************************)
(* The operation catalog (api.py:307-675), as far as the session state     *)
(* machine sees it: every operation is _build_rpc + _authenticated_request;*)
(* a write-style operation returns the raw reply.                          *)
(***************************************************************************)
WriteOps == {"block_device"}
ReadOps == {"get_network_devices"}
CatalogOps == WriteOps \cup ReadOps

\* api.py:334, 484: return await self._authenticated_request(payload)
OpOutcome(o, outcome) == outcome

(***************************************************************************)
(* JSON values as the client handles them: a str, a dict (its items in     *)
(* insertion order), a list (its elements, each paired with an empty key)  *)
(* or None.                                                                *)
(***************************************************************************)
PyStr(s) == [kind |-> "str", s |-> s, items |-> <<>>]
PyMap(items) == [kind |-> "map", s |-> "", items |-> items]
PyList(vals) == [kind |-> "list", s |-> "", items |-> [i \in 1..Len(vals) |-> <<"", vals[i]>>]]
PyNone == [kind |-> "none", s |-> "", items |-> <<>>]
\* an int, kept by its decimal digits
PyInt(n) == [kind |-> "int", s |-> ToString(n), items |-> <<>>]
EmptyMap == PyMap(<<>>)

\* no value taken for empty
PyTruthyAlways(v) == TRUE

\* truth value of a JSON value (`if data:`, `if not data_array:`)
PyTruthy(v) ==
  IF v.kind = "none" THEN FALSE
  ELSE IF v.kind = "str" THEN v.s # ""
  ELSE IF v.kind = "int" THEN v.s # "0"
  ELSE v.items # <<>>

\* `key in m` and `m[key]` of a dict
PyHas(m, k) == \E i \in 1..Len(m.items) : m.items[i][1] = k
PyGet(m, k) == m.items[CHOOSE i \in 1..Len(m.items) : m.items[i][1] = k][2]

\* `m[key] = value` of a dict: a new key goes last, a key already there keeps
\* its place
PySet(m, k, v) ==
  IF PyHas(m, k)
    THEN PyMap([i \in 1..Len(m.items) |-> IF m.items[i][1] = k THEN <<k, v>> ELSE m.items[i]])
    ELSE PyMap(Append(m.items, <<k, v>>))

(***************************************************************************)
(* The envelope builder _build_rpc (api.py:99-158).                        *)
(***************************************************************************)
\* const.py:10
ZAPI_XMLNS == "urn:ietf:params:xml:ns:netconf:base:1.0"
\* const.py:13, 18
NS_SYSTEM == "urn:zyxel:cpe:system:zyxel-system"
NS_NETWORK_DEVICE == "urn:zyxel:cpe:system:zyxel-system-network-device"

\* the clock advances in steps shorter than the second time.time() is cut to
TicksPerSecond == 2
MaxClock == 4

\* api.py:149: int(time.time()) at clock reading `clock`
MessageId(clock) == clock \div TicksPerSecond

Envelope(x, m, o, p, e) ==
  [xmlns |-> x, messageId |-> m, operation |-> o, params |-> p, editConfigOperation |-> e]

\* api.py:119-127
GetConfigParams(namespace, root, source) ==
  PySet(PySet(EmptyMap, "source", PyStr(source)),
        "filter",
        PyList(<<PySet(PySet(PySet(EmptyMap, "xmlns", PyStr(namespace)),
                             "root", PyStr(root)),
                       "type", PyStr("subtree"))>>))

\* the payload test left out: the root key is written whatever the payload
EditConfigParamsAlwaysRoot(namespace, root, data) ==
  LET base == PySet(PySet(EmptyMap, "xmlns", PyStr(namespace)), "root", PyStr(root))
  IN  PySet(PySet(PySet(EmptyMap, "target", PyStr("running")),
                  "error-option", PyStr("stop-on-error")),
            "config", PyList(<<PySet(base, root, data)>>))

\* api.py:128-137
EditConfigParams(namespace, root, data) ==
  LET base == PySet(PySet(EmptyMap, "xmlns", PyStr(namespace)), "root", PyStr(root))
      config_element == IF PyTruthy(data) THEN PySet(base, root, data) ELSE base
  IN  PySet(PySet(PySet(EmptyMap, "target", PyStr("running")),
                  "error-option", PyStr("stop-on-error")),
            "config", PyList(<<config_element>>))

\* the else branch left out: no root key for an absent or empty payload
RpcParamsOmitsEmpty(namespace, root, data) ==
  LET base == PySet(PySet(EmptyMap, "xmlns", PyStr(namespace)), "root", PyStr(root))
  IN  IF PyTruthy(data) THEN PySet(base, root, data) ELSE base

\* api.py:138-144
RpcParams(namespace, root, data) ==
  PySet(PySet(PySet(EmptyMap, "xmlns", PyStr(namespace)), "root", PyStr(root)),
        root, IF PyTruthy(data) THEN data ELSE EmptyMap)

\* the clock reading itself stamped on the envelope, beside the message-id
BuildRpcStampsClock(operation, namespace, root, data, source, edit_operation, clock) ==
  LET params == IF operation = "get-config" THEN GetConfigParams(namespace, root, source)
                ELSE IF operation = "edit-config" THEN EditConfigParams(namespace, root, data)
                ELSE RpcParams(namespace, root, data)
  IN  Envelope(ToString(clock), MessageId(clock), operation, params,
               IF Truthy(edit_operation) THEN edit_operation ELSE Missing)

\* api.py:117-158
BuildRpc(operation, namespace, root, data, source, edit_operation, clock) ==
  LET params == IF operation = "get-config" THEN GetConfigParams(namespace, root, source)
                ELSE IF operation = "edit-config" THEN EditConfigParams(namespace, root, data)
                ELSE RpcParams(namespace, root, data)
  IN  Envelope(ZAPI_XMLNS, MessageId(clock), operation, params,
               IF Truthy(edit_operation) THEN edit_operation ELSE Missing)

\* the arguments the builder is called with
Operations == {"rpc", "get-config", "edit-config", "action"}
Namespaces == {NS_SYSTEM, NS_NETWORK_DEVICE}
BuildRoots == {"basic-system-info", "network-devices"}
BlockInput == PyMap(<< <<"input", PyMap(<< <<"mac-address", PyStr("AA:BB")>> >>)>> >>)
Payloads == {PyNone, EmptyMap, BlockInput}
Sources == {"running"}
EditOperations == {None, "replace"}

(***************************************************************************)
(* The response unwrapper _extract_data (api.py:275-303).                  *)
(***************************************************************************)
\* the value of an expression, or the exception its evaluation raises
Val(v) == [err |-> "none", v |-> v]
Raise(e) == [err |-> e, v |-> PyNone]

\* `v[key]` with a str key
Subscript(v, k) ==
  IF v.kind = "map" THEN (IF PyHas(v, k) THEN Val(PyGet(v, k)) ELSE Raise("KeyError"))
  ELSE Raise("TypeError")

\* `v[0]`: the keys of a JSON object are strings, so 0 is never one of them
Index0(v) ==
  IF v.kind = "list" THEN (IF v.items # <<>> THEN Val(v.items[1][2]) ELSE Raise("IndexError"))
  ELSE IF v.kind = "map" THEN Raise("KeyError")
  ELSE Raise("TypeError")

\* the root test left out: the root key is never found
RootInNever(root, element) == Val(PyStr(""))

\* `root in element`, for the elements drawn here: a key of a dict, a member
\* of a list; None is not iterable
RootIn(root, element) ==
  IF element.kind = "map" THEN Val(IF PyHas(element, root) THEN PyStr("True") ELSE PyStr(""))
  ELSE IF element.kind = "list"
    THEN Val(IF \E i \in 1..Len(element.items) : element.items[i][2] = PyStr(root)
               THEN PyStr("True") ELSE PyStr(""))
  ELSE Raise("TypeError")

\* no key skipped
no_metadata_keys == {}

\* api.py:292
metadata_keys == {"xmlns", "type", "timestamp", "root", "not-modified"}

\* an empty mapping, not the element, when the scan finds nothing
ScanElementOrEmpty(element) ==
  IF element.kind # "map" THEN Raise("AttributeError")
  ELSE LET hits == { i \in 1..Len(element.items) :
                       /\ element.items[i][1] \notin metadata_keys
                       /\ element.items[i][2].kind = "map" }
       IN  IF hits = {} THEN Val(EmptyMap)
           ELSE Val(element.items[CHOOSE i \in hits : \A j \in hits : i <= j][2])

\* api.py:293-296: the first item, in the dict's order, that is not a metadata
\* key and holds a dict; the element itself if there is none.  A value
\* without .items() raises AttributeError.
ScanElement(element) ==
  IF element.kind # "map" THEN Raise("AttributeError")
  ELSE LET hits == { i \in 1..Len(element.items) :
                       /\ element.items[i][1] \notin metadata_keys
                       /\ element.items[i][2].kind = "map" }
       IN  IF hits = {} THEN Val(element)
           ELSE Val(element.items[CHOOSE i \in hits : \A j \in hits : i <= j][2])

\* api.py:285: result["rpc-reply"]["data"]
DataArray(result) ==
  LET reply == Subscript(result, "rpc-reply")
  IN  IF reply.err # "none" THEN reply ELSE Subscript(reply.v, "data")

\* api.py:298-303: the handler of KeyError, IndexError and TypeError
ExtractFallback(result) ==
  LET data_array == DataArray(result)
      first == IF data_array.err # "none" THEN data_array ELSE Index0(data_array.v)
  IN  IF first.err # "none" THEN Val(result) ELSE first

Caught == {"KeyError", "IndexError", "TypeError"}

\* api.py:284-296, the body of the try
ExtractBody(result, root) ==
  LET data_array == DataArray(result)
  IN  IF data_array.err # "none" THEN data_array
      ELSE IF ~PyTruthy(data_array.v) THEN Val(EmptyMap)
      ELSE LET first == Index0(data_array.v)
           IN  IF first.err # "none" THEN first
               ELSE LET element == first.v
                        has == IF Truthy(root) THEN RootIn(root, element) ELSE Val(PyStr(""))
                    IN  IF has.err # "none" THEN has
                        ELSE IF PyTruthy(has.v) THEN Subscript(element, root)
                        ELSE ScanElement(element)

\* api.py:275-303
ExtractData(result, root) ==
  LET body == ExtractBody(result, root)
  IN  IF body.err \in Caught THEN ExtractFallback(result) ELSE body

\* the items a first data element is made of, and the elements of up to
\* MaxKeys of them in any order
MaxKeys == 3
SystemInfo == PyMap(<< <<"model-name", PyStr("X")>> >>)
TokenOutput == PyMap(<< <<"token", PyStr("T")>> >>)
Changed == PyMap(<< <<"since", PyStr("0")>> >>)
ItemPool ==
  { <<"xmlns", PyStr(NS_SYSTEM)>>, <<"root", PyStr("basic-system-info")>>,
    <<"type", PyStr("subtree")>>, <<"timestamp", Changed>>,
    <<"not-modified", PyStr("false")>>, <<"basic-system-info", SystemInfo>>,
    <<"output", TokenOutput>>, <<"count", PyStr("3")>> }
ElementItems ==
  UNION { { s \in [1..n -> ItemPool] : \A i, j \in 1..n : i # j => s[i][1] # s[j][1] }
          : n \in 0..MaxKeys }

ReplyWith(data) ==
  PyMap(<< <<"rpc-reply", PyMap(<< <<"result", PyStr("ok")>>, <<"data", data>> >>)>> >>)
Results ==
  { ReplyWith(PyList(<<PyMap(it)>>)) : it \in ElementItems }
  \cup { ReplyWith(PyList(<<>>)), ReplyWith(PyNone), ReplyWith(EmptyMap),
         ReplyWith(PyList(<<PyNone>>)), ReplyWith(PyList(<<PyList(<<>>)>>)),
         ReplyWith(PyList(<<PyInt(5)>>)),
         ReplyWith(PyList(<<PyMap(<< <<"output", TokenOutput>> >>), SystemInfo>>)),
         PyMap(<< <<"rpc-reply", PyMap(<< <<"result", PyStr("ok")>> >>)>> >>),
         EmptyMap }
RootArgs == {None, "", "basic-system-info", "network-devices", "xmlns", "timestamp"}

(***************************************************************************)
(* The operation catalog (api.py:307-675): what each operation passes to   *)
(* _build_rpc, what it returns (the raw reply, the unwrapped payload, or   *)
(* the device list of it) and the root it passes to _extract_data.         *)
(***************************************************************************)
\* const.py:15-19, 37, 39, 41; api.py:501, 671
NS_EASY123 == "urn:zyxel:cpe:system:zyxel-system-easy123"
NS_SPEED_TEST == "urn:zyxel:cpe:system:zyxel-system-speed-test"
NS_FIRMWARE == "urn:zyxel:cpe:system:zyxel-system-firmware-upgrade"
NS_WIFI_SYSTEM == "urn:zyxel:cpe:system:zyxel-system-wifi-system"
NS_PARENTAL == "urn:zyxel:cpe:applications:zyxel-applications-parental-control"
NS_NAT_GENERAL == "urn:zyxel:cpe:applications:zyxel-applications-nat-general"
NS_FIREWALL_V4 == "urn:zyxel:cpe:applications:zyxel-applications-ipv4-firewall"
NatNamespace == "urn:zyxel:cpe:applications:zyxel-applications-nat"
WanNamespace == "urn:zyxel:cpe:system:zyxel-system-wan-profile"

Entry(o, ns, r, ret, xr) ==
  [operation |-> o, namespace |-> ns, root |-> r, ret |-> ret, xroot |-> xr]
Read(ns, r, xr) == Entry("rpc", ns, r, "unwrap", xr)
Write(ns, r) == Entry("rpc", ns, r, "raw", None)

Catalog ==
  [ get_system_info |-> Read(NS_SYSTEM, "basic-system-info", "basic-system-info"),
    get_system_state |-> Read(NS_SYSTEM, "system-state", "system-state"),
    get_api_version |-> Read(NS_SYSTEM, "api-version", "api-version"),
    get_current_bandwidth |-> Read(NS_SYSTEM, "current-band-width", "current-band-width"),
    system_restart |-> Write(NS_SYSTEM, "system-restart"),
    system_shutdown |-> Write(NS_SYSTEM, "system-shutdown"),
    wake_on_lan |-> Write(NS_SYSTEM, "system-wake-on-lan"),
    get_wifi_config |-> Read(NS_EASY123, "get-wifi-configuration", "get-wifi-configuration"),
    set_wifi |-> Write(NS_EASY123, "set-wifi"),
    is_wan_connected |-> Read(NS_EASY123, "is-wan-port-connected", "is-wan-port-connected"),
    get_internet_status |-> Read(NS_EASY123, "access-internet-status", "access-internet-status"),
    start_speed_test |-> Write(NS_SPEED_TEST, "speed-test"),
    get_speed_test_result |-> Read(NS_SPEED_TEST, "test-result", "test-result"),
    get_speed_test_history |-> Read(NS_SPEED_TEST, "get-history", "get-history"),
    get_network_devices |->
      Entry("get-config", NS_NETWORK_DEVICE, "network-devices", "devices", "network-devices"),
    get_device_statistics |->
      Read(NS_NETWORK_DEVICE, "get-device-statistics", "get-device-statistics"),
    set_device_name |-> Write(NS_NETWORK_DEVICE, "set-device-name"),
    block_device |-> Write(NS_FIREWALL_V4, "block"),
    unblock_device |-> Write(NS_FIREWALL_V4, "unblock"),
    get_nat_config |-> Entry("get-config", NatNamespace, "nat", "unwrap", "nat"),
    add_port_forward |-> Write(NS_NAT_GENERAL, "add-rule"),
    remove_port_forward |-> Write(NS_NAT_GENERAL, "remove-rule"),
    get_parental_config |-> Entry("get-config", NS_PARENTAL, "top", "unwrap", "top"),
    parental_block |-> Write(NS_PARENTAL, "block"),
    parental_unblock |-> Write(NS_PARENTAL, "unblock"),
    parental_bonus |-> Write(NS_PARENTAL, "bonus"),
    get_mesh_devices_state |->
      Read(NS_WIFI_SYSTEM, "system-devices-state", "system-devices-state"),
    restart_mesh_node |-> Write(NS_WIFI_SYSTEM, "restart"),
    switch_led |-> Write(NS_WIFI_SYSTEM, "switch-led"),
    rename_mesh_node |-> Write(NS_WIFI_SYSTEM, "naming"),
    firmware_check |-> Read(NS_FIRMWARE, "on-line-check", "on-line-check"),
    firmware_download |-> Write(NS_FIRMWARE, "on-line-download"),
    firmware_download_status |->
      Read(NS_FIRMWARE, "on-line-download-status", "on-line-download-status"),
    firmware_upgrade |-> Write(NS_FIRMWARE, "on-line-upgrade"),
    firmware_upgrade_status |-> Read(NS_FIRMWARE, "upgrade-status", "upgrade-status"),
    get_wan_config |-> Entry("get-config", WanNamespace, "wan", "unwrap", "wan") ]

OpNames == DOMAIN Catalog

\* {"input": {...}} with the given items
Input(items) == PyMap(<< <<"input", PyMap(items)>> >>)

\* the falsy lasting-time dropped from the payload
BlockDataDropsZero(a, n) ==
  Input(IF n # 0 THEN << <<"mac-address", PyStr(a)>>, <<"lasting-time", PyInt(n)>> >>
        ELSE << <<"mac-address", PyStr(a)>> >>)

\* api.py:477-482
BlockData(a, n) == Input(<< <<"mac-address", PyStr(a)>>, <<"lasting-time", PyInt(n)>> >>)

\* api.py:372-378: set_wifi(ssid=a, password=b), network "main"
SetWifiInput(a, b) ==
  LET d0 == PySet(EmptyMap, "network", PyStr("main"))
      d1 == IF a # "" THEN PySet(d0, "ssid", PyStr(a)) ELSE d0
  IN  IF b # "" THEN PySet(d1, "psk", PyMap(<< <<"key", PyStr(b)>> >>)) ELSE d1

\* the data argument of the operation's _build_rpc call, the operation being
\* called with the string arguments a, b and the integer argument n at clock
\* reading `clock`
OpData(name, a, b, n, clock) ==
  CASE name = "wake_on_lan" -> Input(<< <<"mac-address", PyStr(a)>> >>)
    [] name = "get_wifi_config" -> Input(<< <<"network", PyStr(a)>> >>)
    [] name = "set_wifi" -> PyMap(<< <<"input", SetWifiInput(a, b)>> >>)
    [] name = "start_speed_test" ->
         Input(<< <<"originator", PyInt(1)>>, <<"device-mac", PyStr(a)>>,
                  <<"test-id", PyStr(ToString(MessageId(clock)))>>, <<"target", PyStr(b)>> >>)
    [] name = "get_speed_test_history" ->
         Input(<< <<"device-mac", PyStr(a)>>, <<"number", PyInt(n)>> >>)
    [] name = "set_device_name" -> Input(<< <<"id", PyStr(a)>>, <<"name", PyStr(b)>> >>)
    [] name = "block_device" -> BlockData(a, n)
    [] name = "unblock_device" -> Input(<< <<"index", PyStr(a)>> >>)
    [] name = "add_port_forward" ->
         Input(<< <<"service", PyStr(a)>>, <<"service-index", PyInt(0)>>,
                  <<"protocol", PyStr(b)>>, <<"external-port", PyInt(n)>>,
                  <<"external-port-end", PyInt(n)>>, <<"internal-port", PyInt(n)>>,
                  <<"local-ip", PyStr(b)>> >>)
    [] name = "remove_port_forward" -> Input(<< <<"index", PyInt(n)>> >>)
    [] name \in {"parental_block", "parental_unblock"} -> Input(<< <<"index", PyStr(a)>> >>)
    [] name = "parental_bonus" -> Input(<< <<"index", PyStr(a)>>, <<"minute", PyInt(n)>> >>)
    [] name = "restart_mesh_node" -> Input(<< <<"mac", PyStr(a)>> >>)
    [] name = "switch_led" ->
         Input(<< <<"mac", PyStr(a)>>, <<"led-switch", PyStr(b)>>,
                  <<"led-brightness-level", PyInt(n)>> >>)
    [] name = "rename_mesh_node" -> Input(<< <<"mac", PyStr(a)>>, <<"name", PyStr(b)>> >>)
    [] OTHER -> PyNone

\* the envelope the operation passes to _authenticated_request
OpEnvelope(name, a, b, n, clock) ==
  BuildRpc(Catalog[name].operation, Catalog[name].namespace, Catalog[name].root,
           OpData(name, a, b, n, clock), "running", None, clock)

\* the unwrapped payload itself when it holds no device list
DeviceListOrPayload(data) ==
  IF data.err # "none" THEN data
  ELSE IF data.v.kind = "map" /\ PyHas(data.v, "device") THEN Val(PyGet(data.v, "device"))
  ELSE data

\* api.py:447-449
DeviceList(data) ==
  IF data.err # "none" THEN data
  ELSE IF data.v.kind = "map"
    THEN Val(IF PyHas(data.v, "device") THEN PyGet(data.v, "device") ELSE PyList(<<>>))
  ELSE Val(PyList(<<>>))

\* every operation returns the raw reply
OpReturnRaw(name, result) == Val(result)

\* what the operation returns once _authenticated_request has returned result
OpReturn(name, result) ==
  IF Catalog[name].ret = "raw" THEN Val(result)
  ELSE IF Catalog[name].ret = "unwrap" THEN ExtractData(result, Catalog[name].xroot)
  ELSE DeviceList(ExtractData(result, Catalog[name].xroot))

\* the arguments the operations are called with, and the replies
\* _authenticated_request returns to an operation whose root is `root`
StrArgs == {"", "AA:BB:CC:DD:EE:FF"}
IntArgs == {0, 30}
Device == PyMap(<< <<"mac-address", PyStr("AA:BB:CC:DD:EE:FF")>> >>)
Devices == PyMap(<< <<"device", PyList(<<Device, Device>>)>> >>)
OpResults(root) ==
  { ReplyWith(PyList(<<PyMap(<< <<"xmlns", PyStr(NS_SYSTEM)>>, <<"root", PyStr(root)>>,
                                <<root, Devices>> >>)>>)),
    ReplyWith(PyList(<<PyMap(<< <<root, SystemInfo>> >>)>>)),
    ReplyWith(PyList(<<PyMap(<< <<root, EmptyMap>> >>)>>)),
    ReplyWith(PyList(<<PyMap(<< <<root, PyStr("none")>> >>)>>)),
    ReplyWith(PyList(<<PyMap(<< <<"output", Devices>> >>)>>)),
    ReplyWith(PyList(<<PyMap(<< <<"xmlns", PyStr(NS_SYSTEM)>> >>)>>)),
    ReplyWith(PyList(<<>>)),
    ReplyWith(PyList(<<PyNone>>)) }

(***************************************************************************)
(* The HTTP session of the client (api.py:67-97).  A session is named      *)
(* "caller" when the caller passed it to the constructor, and by the       *)
(* number of its creation when the client made it.                         *)
(***************************************************************************)
MaxSessions == 3
CallerSession == "caller"

\* beside the two fields of the client and the sessions that are open: the
\* sessions the client made, the ones close() closed and how many times it
\* called session.close(), the last two operations, and whether the entry
\* that holds the client has been unloaded
Http(s, own, open, made, closed, last) ==
  [session |-> s, own_session |-> own, open |-> open, made |-> made,
   closedByClose |-> closed, closeCalls |-> 0, last |-> last, before |-> "init",
   unloaded |-> FALSE]

\* the operation `what` has just been carried out
Did(h, what) == [h EXCEPT !.before = h.last, !.last = what]

\* api.py:78-80: the constructor, given a session or None
NewClient(session) ==
  Http(session, session = None, IF session = None THEN {} ELSE {session}, {}, {}, "init")

\* api.py:85  self._session is None or self._session.closed
NeedsSession(h) == h.session = None \/ h.session \notin h.open

\* the sessions the client may still create within the bound
CanEnsureSession(h) == NeedsSession(h) => Cardinality(h.made) < MaxSessions

\* api.py:83-92: _ensure_session, the first thing a request does (api.py:162)
EnsureSession(h) ==
  IF NeedsSession(h)
    THEN LET new == ToString(Cardinality(h.made) + 1)
         IN  [Did(h, "request") EXCEPT !.session = new, !.own_session = TRUE,
                                       !.open = @ \cup {new}, !.made = @ \cup {new}]
    ELSE Did(h, "request")

\* the cookie a request carries from the jar of its session: a session made
\* for this request starts with an empty jar
JarOfRequest(h, hk, j, r) == IF NeedsSession(h) THEN None ELSE JarAfter(hk, j, r)

\* the ownership flag ignored
ClosesAnySession(h) == h.session # None /\ h.session \in h.open

\* a session that is closed already is closed again
ClosesSessionAgain(h) == h.own_session /\ h.session # None

\* api.py:96  self._own_session and self._session and not self._session.closed
ClosesSession(h) == h.own_session /\ h.session # None /\ h.session \in h.open

(***************************************************************************)
(* State.                                                                  *)
(***************************************************************************)
(***************************************************************************)
(* The polling cycle, coordinator.py:38-91.  It awaits nine client         *)
(* operations one after the other; each either returns its data or raises. *)
(***************************************************************************)
\* coordinator.py:42-71: the operations in the order the cycle awaits them
PollCalls ==
  <<"get_system_info", "get_network_devices", "get_device_statistics",
    "get_mesh_devices_state", "get_current_bandwidth", "is_wan_connected",
    "get_internet_status", "get_speed_test_result", "firmware_check">>

\* coordinator.py:48-71: the calls wrapped in their own try/except ZapiError
GuardedCalls ==
  {"is_wan_connected", "get_internet_status", "get_speed_test_result", "firmware_check"}

\* api.py:30-35: ZapiAuthError is a subclass of ZapiError
ZapiErrors == {"ZapiError", "ZapiAuthError"}

\* what _request lets through unwrapped (api.py:171-202): the total timeout
\* and a body that is not JSON are not aiohttp.ClientError
OtherErrors == {"TimeoutError", "JSONDecodeError"}

CallOutcomes == {"return"} \cup ZapiErrors \cup OtherErrors

\* coordinator.py:48-71: the inner handlers absorb a ZapiError, any subclass
\* included, of a guarded call, whose result stays the empty mapping
Swallowed(call, e) == call \in GuardedCalls /\ e \in ZapiErrors

\* coordinator.py:86-89: the outer handlers turn a ZapiError into UpdateFailed;
\* any other exception leaves the cycle as it is
CycleFailure(e) == IF e \in ZapiErrors THEN "UpdateFailed" ELSE e

IdlePoll ==
  [step |-> 0, results |-> [i \in 1..Len(PollCalls) |-> "unset"], raised |-> {},
   outcome |-> "idle"]

VARIABLES
  token,    \* self._token: None or the bearer token held
  pc,       \* per task: where its call is suspended
  op,       \* per task: the operation it runs
  cookie,   \* per task: the token cookie of its request in flight
  nAuth,    \* per task: authenticate exchanges sent by the current call
  nPay,     \* per task: payload requests sent by the current call
  issued,   \* the tokens successful authenticates have installed so far
  ev,       \* the step just taken
  now,      \* the clock time.time() reads, in ticks
  msgId,    \* per task: the message-id of the payload envelope it built
  sentIds,  \* the message-ids of the requests sent so far
  wire,     \* the message-id of the request the step just taken sent
  built,    \* the _build_rpc call just made: arguments and envelope
  builtIds, \* the message-ids of the envelopes built before it
  unwrapped, \* an _extract_data call: arguments and, once it returned, result
  host,     \* self._host: an IP address or a name
  jar,      \* the session cookie in the cookie jar of the HTTP session
  lastIssued, \* the token of the last successful authenticate that completed
  catalog,  \* a catalog operation called on its own: arguments, envelope, result
  poll,     \* the coordinator's polling cycle: position, results, outcome
  http      \* the HTTP sessions: self._session, self._own_session, which are open

sessionVars == <<token, pc, op, cookie, nAuth, nPay, issued, ev, host, jar, lastIssued>>
wireVars == <<msgId, sentIds, wire>>
builderVars == <<built, builtIds>>
vars == <<token, pc, op, cookie, nAuth, nPay, issued, ev, now, msgId, sentIds, wire,
          built, builtIds, unwrapped, host, jar, lastIssued, catalog, http, poll>>
sideVars == <<catalog, http, poll>>

\* no envelope built, no request sent
NoMessageId == -1
Wire(id, ids, sc) == [messageId |-> id, reused |-> id \in ids, sessionCookie |-> sc]
NoWire == Wire(NoMessageId, {}, None)
NoBuild ==
  [called |-> FALSE, operation |-> "none", namespace |-> "none", root |-> "none",
   data |-> PyNone, source |-> "none", edit_operation |-> None, envelope |-> Envelope("none", NoMessageId, "none", PyNone, Missing),
   earlier |-> {}]
NoUnwrap == [step |-> "none", result |-> PyNone, root |-> None, out |-> Val(PyNone)]
NoCatalog ==
  [step |-> "none", name |-> "none", a |-> "", b |-> "", n |-> 0,
   envelope |-> Envelope("none", NoMessageId, "none", PyNone, Missing),
   result |-> PyNone, out |-> Val(PyNone)]

AuthPcs == {"auth0", "auth1", "auth2"}
PayPcs == {"pay1", "pay2"}

\* the step just taken: the call's position before and after it, the exchange
\* that ended (if one did) with its reply and what _request raised, what the
\* call ended in (or "pending"), and the request the step put on the wire
Event(ty, o, p, q, x, r, rr, out, s, c, tb, na, np) ==
  [type |-> ty, op |-> o, pc |-> p, pcAfter |-> q, exch |-> x, reply |-> r,
   reqRaise |-> rr, outcome |-> out, sent |-> s, cookie |-> c, tokenBefore |-> tb,
   nAuth |-> na, nPay |-> np]

\* api.py:67-81
InitSession ==
  /\ token = None
  /\ pc = [t \in Tasks |-> "idle"]
  /\ op = [t \in Tasks |-> "none"]
  /\ cookie = [t \in Tasks |-> None]
  /\ nAuth = [t \in Tasks |-> 0]
  /\ nPay = [t \in Tasks |-> 0]
  /\ issued = {}
  /\ ev = Event("init", "none", "idle", "idle", "none", NoReply, "none", "pending",
                "none", None, None, 0, 0)
  /\ now = 0
  /\ msgId = [t \in Tasks |-> NoMessageId]
  /\ sentIds = {}
  /\ wire = NoWire
  /\ built = NoBuild
  /\ builtIds = {}
  /\ jar = None
  /\ lastIssued = None
  /\ catalog = NoCatalog
  /\ poll = IdlePoll

\* coordinator.py:35: the coordinator constructs the client without a session
Init ==
  InitSession /\ host = DefaultHost /\ unwrapped = NoUnwrap /\ http = NewClient(None)

\* the call of task t ends: it returns or raises `outcome`
Finish(t, x, r, rr, outcome, tok) ==
  /\ token' = tok
  /\ pc' = [pc EXCEPT ![t] = "idle"]
  /\ op' = [op EXCEPT ![t] = "none"]
  /\ cookie' = [cookie EXCEPT ![t] = None]
  /\ nAuth' = [nAuth EXCEPT ![t] = 0]
  /\ nPay' = [nPay EXCEPT ![t] = 0]
  /\ ev' = Event("response", op[t], pc[t], "idle", x, r, rr, OpOutcome(op[t], outcome),
                 "none", None, token, nAuth[t], nPay[t])
  /\ msgId' = [msgId EXCEPT ![t] = NoMessageId]
  /\ wire' = NoWire
  /\ jar' = JarAfter(host, jar, r)
  /\ UNCHANGED <<now, sentIds, builderVars, unwrapped, host, sideVars>>

\* task t puts an authenticate request on the wire (api.py:217-232)
SendAuth(t, ty, o, x, r, rr, tok, nextPc) ==
  /\ token' = tok
  /\ pc' = [pc EXCEPT ![t] = nextPc]
  /\ op' = [op EXCEPT ![t] = o]
  /\ cookie' = [cookie EXCEPT ![t] = RequestCookie(tok)]
  /\ nAuth' = [nAuth EXCEPT ![t] = Inc(@)]
  /\ UNCHANGED nPay
  /\ ev' = Event(ty, o, pc[t], nextPc, x, r, rr, "pending", "auth", RequestCookie(tok),
                 token, Inc(nAuth[t]), nPay[t])
  \* the operation built its payload before it called _authenticated_request
  \* (api.py:309-310); authenticate builds its own envelope (api.py:217)
  /\ msgId' = IF ty = "call" THEN [msgId EXCEPT ![t] = MessageId(now)] ELSE msgId
  /\ wire' = Wire(MessageId(now), sentIds, JarOfRequest(http, host, jar, r))
  /\ sentIds' = sentIds \cup {MessageId(now)}
  /\ jar' = JarOfRequest(http, host, jar, r)
  /\ CanEnsureSession(http)
  /\ http' = EnsureSession(http)
  /\ UNCHANGED <<now, builderVars, unwrapped, host, catalog, poll>>

\* task t puts its payload on the wire (api.py:269, 273)
SendPayload(t, ty, o, x, r, rr, tok, nextPc) ==
  /\ token' = tok
  /\ pc' = [pc EXCEPT ![t] = nextPc]
  /\ op' = [op EXCEPT ![t] = o]
  /\ cookie' = [cookie EXCEPT ![t] = RequestCookie(tok)]
  /\ nPay' = [nPay EXCEPT ![t] = Inc(@)]
  /\ UNCHANGED nAuth
  /\ ev' = Event(ty, o, pc[t], nextPc, x, r, rr, "pending", "payload", RequestCookie(tok),
                 token, nAuth[t], Inc(nPay[t]))
  \* the envelope is built once, by the operation (api.py:309); both sends
  \* (api.py:269, 273) put that same object on the wire
  /\ LET id == IF ty = "call" THEN MessageId(now) ELSE msgId[t]
     IN  /\ msgId' = [msgId EXCEPT ![t] = id]
         /\ wire' = Wire(id, sentIds, JarOfRequest(http, host, jar, r))
         /\ sentIds' = sentIds \cup {id}
  /\ jar' = JarOfRequest(http, host, jar, r)
  /\ CanEnsureSession(http)
  /\ http' = EnsureSession(http)
  /\ UNCHANGED <<now, builderVars, unwrapped, host, catalog, poll>>

(***************************************************************************)
(* A catalog operation is called: _authenticated_request up to its first   *)
(* exchange (api.py:261-269).                                              *)
(***************************************************************************)
CallStart(t, o) ==
  /\ pc[t] = "idle"
  /\ UNCHANGED <<issued, lastIssued>>
  /\ IF NeedsAuthenticate(token)
       THEN SendAuth(t, "call", o, "none", NoReply, "none", token, "auth1")
       ELSE SendPayload(t, "call", o, "none", NoReply, "none", token, "pay1")

(***************************************************************************)
(* authenticate() is called by the host itself (config_flow.py:46), up to  *)
(* its exchange (api.py:204-232).                                          *)
(***************************************************************************)
AuthenticateStart(t) ==
  /\ pc[t] = "idle"
  /\ UNCHANGED <<issued, lastIssued>>
  /\ SendAuth(t, "authenticate", "authenticate", "none", NoReply, "none", token, "auth0")

(***************************************************************************)
(* The authenticate exchange of task t ends with reply r: the rest of      *)
(* _request and authenticate (api.py:179-259), then what the caller does   *)
(* next (api.py:269 after 266, api.py:273 after 272).                      *)
(***************************************************************************)
AuthResponse(t, r) ==
  /\ pc[t] \in AuthPcs
  /\ LET raised == RaiseTable[r]
         tok1 == TokenAfterRequest(token, raised)
         tk == ExtractToken(r)
         failed == AuthenticateRaises(raised, tk)
     IN  IF failed # "none"
           THEN Finish(t, "auth", r, raised, failed, tok1) /\ UNCHANGED <<issued, lastIssued>>
         ELSE /\ issued' = issued \cup {tk}
              /\ lastIssued' = tk
              /\ IF pc[t] = "auth0"
                   THEN Finish(t, "auth", r, raised, "return", InstalledToken(tok1, tk))
                   ELSE SendPayload(t, "response", op[t], "auth", r, raised,
                                    InstalledToken(tok1, tk),
                                    IF pc[t] = "auth1" THEN "pay1" ELSE "pay2")

(***************************************************************************)
(* The payload exchange of task t ends with reply r (api.py:179-202 and    *)
(* 268-273).                                                               *)
(***************************************************************************)
PayloadResponse(t, r) ==
  /\ pc[t] \in PayPcs
  /\ UNCHANGED <<issued, lastIssued>>
  /\ LET raised == RaiseTable[r]
         tok1 == TokenAfterRequest(token, raised)
     IN  IF raised = "none"
           THEN Finish(t, "payload", r, raised, "return", tok1)
         ELSE IF Absorbs(pc[t], raised)
           THEN SendAuth(t, "response", op[t], "payload", r, raised, tok1, "auth2")
         ELSE Finish(t, "payload", r, raised, raised, tok1)

Respond(t) == \E r \in Replies : AuthResponse(t, r) \/ PayloadResponse(t, r)

(***************************************************************************)
(* The host awaits each call before it makes the next one, as the polling  *)
(* cycle (coordinator.py:42-71) and the config flow (config_flow.py:46-47) *)
(* do: at most one call is in flight.                                      *)
(***************************************************************************)
NoCallInFlight == \A u \in Tasks : pc[u] = "idle"

Next ==
  \/ \E t \in Tasks, o \in CatalogOps : NoCallInFlight /\ CallStart(t, o)
  \/ \E t \in Tasks : NoCallInFlight /\ AuthenticateStart(t)
  \/ \E t \in Tasks, r \in Replies : AuthResponse(t, r)
  \/ \E t \in Tasks, r \in Replies : PayloadResponse(t, r)

Spec == Init /\ [][Next]_vars

\* every HTTP exchange ends: it is answered, fails or times out (api.py:177)
FairSpec == Spec /\ \A t \in Tasks : WF_vars(Respond(t))

(***************************************************************************)
(* Service handlers (__init__.py:57-171) run as tasks of their own beside  *)
(* the polling cycle, and the client has no lock: calls overlap, and the   *)
(* tasks interleave at the HTTP exchanges.  One reply of each kind the     *)
(* session state machine tells apart is drawn here.                        *)
(***************************************************************************)
ConcReplies ==
  { Reply("response", HTTP_OK, "object", "ok", TagEmpty, CodeNone, DataShape("T1", Missing, Missing)),
    Reply("response", HTTP_OK, "object", "ok", TagEmpty, CodeNone, DataShape("T2", Missing, Missing)),
    Reply("response", HTTP_OK, "object", "ok", TagEmpty, CodeNone, NoData),
    Reply("response", HTTP_UNAUTHORIZED, "object", "failed", TagAccessDenied, CodeAccessDenied, NoData),
    Reply("response", HTTP_OK, "object", "failed", TagInvalidValue, CodeNone, NoData) }

NextConc ==
  \/ \E t \in Tasks, o \in CatalogOps : CallStart(t, o)
  \/ \E t \in Tasks : AuthenticateStart(t)
  \/ \E t \in Tasks, r \in ConcReplies : AuthResponse(t, r)
  \/ \E t \in Tasks, r \in ConcReplies : PayloadResponse(t, r)

SpecConc == Init /\ [][NextConc]_vars

(***************************************************************************)
(* Time passes between the steps of the client.                            *)
(***************************************************************************)
Tick ==
  /\ now < MaxClock
  /\ now' = now + 1
  /\ UNCHANGED <<sessionVars, wireVars, builderVars, unwrapped, sideVars>>

NextClock == Next \/ Tick

SpecClock == Init /\ [][NextClock]_vars

(***************************************************************************)
(* The router sets a session cookie with some of its answers, and the      *)
(* client was constructed for a host of either kind.                       *)
(***************************************************************************)
InitCookie ==
  InitSession /\ host \in HostKinds /\ unwrapped = NoUnwrap /\ http = NewClient(None)

NextCookie ==
  \/ \E t \in Tasks, o \in CatalogOps : NoCallInFlight /\ CallStart(t, o)
  \/ \E t \in Tasks : NoCallInFlight /\ AuthenticateStart(t)
  \/ \E t \in Tasks, r \in Replies \cup CookieReplies : AuthResponse(t, r)
  \/ \E t \in Tasks, r \in Replies \cup CookieReplies : PayloadResponse(t, r)

SpecCookie == InitCookie /\ [][NextCookie]_vars

(***************************************************************************)
(* The envelope builder called on its own, any number of times, with time  *)
(* passing or not between two calls (api.py:99-158).                       *)
(***************************************************************************)
BuildCall(operation, namespace, root, data, source, edit_operation) ==
  LET envelope == BuildRpc(operation, namespace, root, data, source, edit_operation, now)
  IN  /\ built' = [called |-> TRUE, operation |-> operation, namespace |-> namespace,
                   root |-> root, data |-> data, source |-> source,
                   edit_operation |-> edit_operation, envelope |-> envelope,
                   earlier |-> builtIds]
      /\ builtIds' = builtIds \cup {envelope.messageId}
      /\ UNCHANGED <<sessionVars, wireVars, now, unwrapped, sideVars>>

NextBuild ==
  \/ Tick
  \/ \E operation \in Operations, namespace \in Namespaces, root \in BuildRoots,
        data \in Payloads, source \in Sources, edit_operation \in EditOperations :
        BuildCall(operation, namespace, root, data, source, edit_operation)

SpecBuild == Init /\ [][NextBuild]_vars

(***************************************************************************)
(* The unwrapper called on a reply and a root argument (api.py:275-303).   *)
(***************************************************************************)
InitExtract ==
  /\ InitSession
  /\ host = DefaultHost
  /\ http = NewClient(None)
  /\ \E result \in Results, root \in RootArgs :
        unwrapped = [step |-> "called", result |-> result, root |-> root, out |-> Val(PyNone)]

ExtractCall ==
  /\ unwrapped.step = "called"
  /\ unwrapped' = [unwrapped EXCEPT !.step = "returned",
                                    !.out = ExtractData(unwrapped.result, unwrapped.root)]
  /\ UNCHANGED <<sessionVars, wireVars, builderVars, now, sideVars>>

NextExtract == ExtractCall

SpecExtract == InitExtract /\ [][NextExtract]_vars

(***************************************************************************)
(* A catalog operation called on its own (api.py:307-675): it builds its   *)
(* envelope and hands it to _authenticated_request; when that returns a    *)
(* reply, the operation returns.  What _authenticated_request does in      *)
(* between, and the errors it raises through the operation, is the session *)
(* state machine above.                                                    *)
(***************************************************************************)
OpCall(name, a, b, n) ==
  /\ catalog.step = "none"
  /\ catalog' = [catalog EXCEPT !.step = "awaiting", !.name = name, !.a = a, !.b = b,
                                !.n = n, !.envelope = OpEnvelope(name, a, b, n, now)]
  /\ UNCHANGED <<sessionVars, wireVars, builderVars, now, unwrapped, http, poll>>

OpReturns(result) ==
  /\ catalog.step = "awaiting"
  /\ result \in OpResults(Catalog[catalog.name].root)
  /\ catalog' = [catalog EXCEPT !.step = "returned", !.result = result,
                                !.out = OpReturn(catalog.name, result)]
  /\ UNCHANGED <<sessionVars, wireVars, builderVars, now, unwrapped, http, poll>>

NextCatalog ==
  \/ \E name \in OpNames, a \in StrArgs, b \in StrArgs, n \in IntArgs : OpCall(name, a, b, n)
  \/ \E name \in OpNames : \E result \in OpResults(Catalog[name].root) : OpReturns(result)

SpecCatalog == Init /\ [][NextCatalog]_vars

(***************************************************************************)
(* Requests, close() calls and the caller closing the session it supplied, *)
(* in any order, on a client constructed with or without a session         *)
(* (api.py:67-97, 162).                                                    *)
(***************************************************************************)
InitHttp ==
  /\ InitSession
  /\ host = DefaultHost
  /\ unwrapped = NoUnwrap
  /\ \E session \in {None, CallerSession} : http = NewClient(session)

\* api.py:94-97
Close ==
  /\ IF ClosesSession(http)
       THEN http' = [Did(http, "close") EXCEPT !.open = @ \ {http.session},
                                               !.closedByClose = @ \cup {http.session},
                                               !.closeCalls = @ + 1]
       ELSE http' = Did(http, "close")
  /\ UNCHANGED <<sessionVars, wireVars, builderVars, now, unwrapped, catalog, poll>>

\* the caller closes the session it supplied
CallerCloses ==
  /\ CallerSession \in http.open
  /\ http' = [Did(http, "callerCloses") EXCEPT !.open = @ \ {CallerSession}]
  /\ UNCHANGED <<sessionVars, wireVars, builderVars, now, unwrapped, catalog, poll>>

NextHttp ==
  \/ Next
  \/ NoCallInFlight /\ Close
  \/ NoCallInFlight /\ CallerCloses

SpecHttp == InitHttp /\ [][NextHttp]_vars

(***************************************************************************)
(* The life of a config entry (__init__.py:25-51): set up, the coordinator *)
(* and its client (coordinator.py:35) serve calls until the entry is       *)
(* unloaded; the unload of the platforms succeeds or not.                  *)
(***************************************************************************)
\* __init__.py:47-51
UnloadEntry(unload_ok) ==
  /\ ~http.unloaded
  /\ http' = IF unload_ok THEN [Did(http, "unload") EXCEPT !.unloaded = TRUE]
                          ELSE Did(http, "unloadFailed")
  /\ UNCHANGED <<sessionVars, wireVars, builderVars, now, unwrapped, catalog, poll>>

NextEntry ==
  \/ ~http.unloaded /\ Next
  \/ \E unload_ok \in BOOLEAN : NoCallInFlight /\ UnloadEntry(unload_ok)

SpecEntry == Init /\ [][NextEntry]_vars

(***************************************************************************)
(* Notions the properties are stated in, read off the reply itself.        *)
(***************************************************************************)
\* the tags of the model that contain "auth" or "access", whatever the case
AuthTaggedTags == {TagAccessDenied, TagAuthUpper}

\* an exchange ended in this step
Exchanged == ev.exch # "none"

\* the reply is an error reply: a JSON object with a result that is not "ok"
ErrorReply(r) ==
  r.xfer = "response" /\ r.status = HTTP_OK /\ r.body = "object" /\ r.result = "failed"

\* the authentication failures the client detects: HTTP 401, or an error
\* reply whose tag contains "auth" or "access" (the body being readable)
AuthFailureReply(r) ==
  /\ r.xfer = "response"
  /\ r.body # "malformed"
  /\ r.status = HTTP_UNAUTHORIZED \/ (ErrorReply(r) /\ r.tag \in AuthTaggedTags)

\* the kind raised for a reply whose result is not "ok" (api.py:198)
ProtocolErrorKind == "ZapiError"

(***************************************************************************)
(* C1.  A call whose first payload attempt gets an authentication failure  *)
(* re-authenticates (one authenticate request, token cleared) and, once    *)
(* that succeeded, sends the payload a second and last time; when the      *)
(* second attempt gets an authentication failure too, the call raises      *)
(* ZapiAuthError and no token is held.  The payload is never sent a third  *)
(* time.                                                                   *)
(***************************************************************************)
C1_RetryOnceThenAuthError ==
  /\ \A t \in Tasks : nPay[t] <= 2
  /\ (Exchanged /\ ev.pc = "pay1" /\ AuthFailureReply(ev.reply)) =>
        /\ ev.outcome = "pending"
        /\ ev.sent = "auth"
        /\ ev.pcAfter = "auth2"
        /\ ev.cookie = None
        /\ token = None
  /\ (ev.pc = "auth2" /\ ev.outcome = "pending") =>
        /\ ev.sent = "payload"
        /\ ev.pcAfter = "pay2"
        /\ ev.nPay = 2
  /\ (Exchanged /\ ev.pc = "pay2") =>
        /\ ev.pcAfter = "idle"
        /\ ev.sent = "none"
        /\ ev.nPay = 2
  /\ (Exchanged /\ ev.pc = "pay2" /\ AuthFailureReply(ev.reply)) =>
        /\ ev.outcome = "ZapiAuthError"
        /\ token = None

C1_Witness ==
  /\ ev.pc = "pay2"
  /\ AuthFailureReply(ev.reply)
  /\ ev.outcome = "ZapiAuthError"
  /\ ev.tokenBefore \in Tokens
  /\ ev.nPay = 2

(***************************************************************************)
(* C2.  Whenever an operation ends by raising ZapiAuthError, no token is   *)
(* held in the resulting state.  (Violated: authenticate() that finds no   *)
(* token in the reply raises ZapiAuthError and leaves a held token alone.) *)
(***************************************************************************)
C2_AuthErrorLeavesNoToken ==
  ev.outcome = "ZapiAuthError" => token = None

(***************************************************************************)
(* C3.  Every payload request on the wire was sent while a token was held  *)
(* and carries that token, a token that a successful authenticate          *)
(* installed; a call made while no token is held sends an authenticate     *)
(* request first.                                                          *)
(***************************************************************************)
C3_PayloadCarriesToken ==
  /\ \A t \in Tasks : pc[t] \in PayPcs => cookie[t] \in issued
  /\ ev.sent = "payload" => (token \in Tokens /\ ev.cookie = token)
  /\ (ev.type = "call" /\ ev.tokenBefore = None) => (ev.sent = "auth" /\ ev.pcAfter = "auth1")
  /\ (ev.pc = "auth1" /\ ev.sent = "payload") => ev.reqRaise = "none"

C3_Witness ==
  /\ ev.pc = "auth1"
  /\ ev.tokenBefore = None
  /\ ev.sent = "payload"
  /\ ev.cookie \in Tokens

(***************************************************************************)
(* C4.  The token is absent at construction.  It becomes a (new) token     *)
(* exactly in the step in which an authenticate exchange succeeds, and     *)
(* then is the non-empty token of that reply; it becomes absent exactly in *)
(* a step in which an authentication failure is detected; no other step    *)
(* changes it.                                                             *)
(***************************************************************************)
AuthenticateSucceeded ==
  ev.exch = "auth" /\ ev.outcome \in {"return", "pending"}

C4_TokenTransitions ==
  /\ ev.type = "init" => token = None
  /\ ~Exchanged => token = ev.tokenBefore
  /\ AuthenticateSucceeded =>
        /\ token \in Tokens
        /\ token \in {ev.reply.data.authentication, ev.reply.data.output, ev.reply.data.other}
  /\ (Exchanged /\ ~AuthenticateSucceeded /\ ~AuthFailureReply(ev.reply)) => token = ev.tokenBefore
  /\ (Exchanged /\ AuthFailureReply(ev.reply)) => token = None

C4_Witness ==
  /\ ev.exch = "payload"
  /\ ev.tokenBefore \in Tokens
  /\ AuthFailureReply(ev.reply)
  /\ token = None

(***************************************************************************)
(* C5.  Every call ends: as long as each HTTP exchange ends (FairSpec), a  *)
(* task that is inside a call gets out of it, whatever the router answers. *)
(***************************************************************************)
C5_CallsTerminate ==
  \A t \in Tasks : (pc[t] # "idle") ~> (pc[t] = "idle")

C5_Witness ==
  /\ ev.pc = "pay2"
  /\ ev.pcAfter = "idle"
  /\ ev.nAuth = 2
  /\ ev.nPay = 2
  /\ ev.reply.status = HTTP_UNAUTHORIZED

(***************************************************************************)
(* C6.  A reply is an authentication failure (ZapiAuthError, token         *)
(* cleared, one re-authenticate after a first attempt) when the error      *)
(* carries the access-denied code, when the error tag contains "auth" or   *)
(* "access", or when the HTTP status is 401.  (Violated: the code never    *)
(* looks at the numeric code.)                                             *)
(***************************************************************************)
C6_AuthClassInThreeCases ==
  ( /\ Exchanged
    /\ ev.reply.xfer = "response"
    /\ ev.reply.body = "object"
    /\ \/ ev.reply.status = HTTP_UNAUTHORIZED
       \/ ErrorReply(ev.reply) /\ ev.reply.tag \in AuthTaggedTags
       \/ ErrorReply(ev.reply) /\ ev.reply.code = CodeAccessDenied )
  => /\ ev.reqRaise = "ZapiAuthError"
     /\ token = None
     /\ ev.pc = "pay1" => ev.sent = "auth"

(***************************************************************************)
(* C7.  A request answered with HTTP 200 returns the reply only if the     *)
(* reply's result is "ok".  (Violated: a reply with an empty or absent     *)
(* result is returned.)                                                    *)
(***************************************************************************)
C7_ReturnsOnlyIfResultOk ==
  ( /\ Exchanged
    /\ ev.reply.xfer = "response"
    /\ ev.reply.status = HTTP_OK
    /\ ev.reply.body = "object"
    /\ ev.reqRaise = "none" )
  => ev.reply.result = "ok"

(***************************************************************************)
(* C8.  A response whose body is not JSON ends the request with an error   *)
(* of the ZapiError family.  (Violated: the decoding error of resp.json()  *)
(* is not caught.)                                                         *)
(***************************************************************************)
C8_MalformedBodyRaisesZapiError ==
  (Exchanged /\ ev.reply.xfer = "response" /\ ev.reply.body = "malformed")
  => (ev.reqRaise \in ZapiErrorFamily /\ ev.outcome \in ZapiErrorFamily)

(***************************************************************************)
(* C9.  A connection failure or a timeout ends the call at once, with no   *)
(* further request, and the error is of a kind that is neither the         *)
(* authentication error nor the protocol error.  (Violated: a connection   *)
(* failure raises the ZapiError a failed reply raises.)                    *)
(***************************************************************************)
C9_ConnectionErrorDistinct ==
  (Exchanged /\ ev.reply.xfer \in {"ClientError", "TimeoutError"})
  => /\ ev.pcAfter = "idle"
     /\ ev.sent = "none"
     /\ ev.outcome \notin {"return", "pending", "ZapiAuthError", ProtocolErrorKind}

(***************************************************************************)
(* C10.  In a write-style operation an exchange that ends in an error      *)
(* other than the authentication error ends the operation with that very   *)
(* error and with no further request; the operation returns only after a   *)
(* payload exchange that succeeded; the only error after which it goes on  *)
(* is the authentication error of the first payload attempt.               *)
(***************************************************************************)
C10_WriteErrorsPropagate ==
  ev.op \in WriteOps =>
    /\ (Exchanged /\ ev.reqRaise \notin {"none", "ZapiAuthError"}) =>
          /\ ev.outcome = ev.reqRaise
          /\ ev.pcAfter = "idle"
          /\ ev.sent = "none"
    /\ ev.outcome = "return" => (ev.exch = "payload" /\ ev.reqRaise = "none")
    /\ (Exchanged /\ ev.reqRaise # "none" /\ ev.outcome = "pending") =>
          (ev.pc = "pay1" /\ ev.reqRaise = "ZapiAuthError")
    /\ (Exchanged /\ ev.reqRaise = "ZapiAuthError" /\ ev.pc # "pay1") =>
          ev.outcome = "ZapiAuthError"

C10_Witness ==
  /\ ev.op \in WriteOps
  /\ ev.exch = "payload"
  /\ ev.reqRaise = "ZapiError"
  /\ ev.outcome = "ZapiError"
  /\ ErrorReply(ev.reply)

(***************************************************************************)
(* Notions the envelope properties are stated in: the items of a mapping   *)
(* whatever their order, and the one element of a one-element list.        *)
(***************************************************************************)
ItemsOf(m) == { m.items[i] : i \in 1..Len(m.items) }
IsMapOf(m, items) ==
  m.kind = "map" /\ Len(m.items) = Cardinality(items) /\ ItemsOf(m) = items
IsListOfOne(l) == l.kind = "list" /\ Len(l.items) = 1
TheElement(l) == l.items[1][2]
NonEmptyPayload(data) == data.kind = "map" /\ Len(data.items) > 0

(***************************************************************************)
(* C11.  The message-id of every envelope built is strictly greater than   *)
(* the message-id of every envelope built earlier by the same client,      *)
(* however little time passed between the builds.                          *)
(***************************************************************************)
C11_MessageIdIncreases ==
  built.called => \A id \in built.earlier : built.envelope.messageId > id

(***************************************************************************)
(* C12.  No request put on the wire carries a message-id that a request    *)
(* sent earlier by the same client carried; the payload sent again after   *)
(* the re-authentication is one of these requests.                         *)
(***************************************************************************)
C12_MessageIdNeverReused ==
  ev.sent # "none" => ~wire.reused

(***************************************************************************)
(* C13.  The params of a get-config envelope carry source "running" and a  *)
(* filter list of exactly one element, which holds xmlns = namespace,      *)
(* root = root, type = "subtree" and the key named by root with an empty   *)
(* object.                                                                 *)
(***************************************************************************)
C13_GetConfigFilterShape ==
  (built.called /\ built.operation = "get-config") =>
    LET params == built.envelope.params
    IN  /\ params.kind = "map"
        /\ PyHas(params, "source") /\ PyGet(params, "source") = PyStr("running")
        /\ PyHas(params, "filter") /\ IsListOfOne(PyGet(params, "filter"))
        /\ LET element == TheElement(PyGet(params, "filter"))
           IN  /\ element.kind = "map"
               /\ <<"xmlns", PyStr(built.namespace)>> \in ItemsOf(element)
               /\ <<"root", PyStr(built.root)>> \in ItemsOf(element)
               /\ <<"type", PyStr("subtree")>> \in ItemsOf(element)
               /\ <<built.root, EmptyMap>> \in ItemsOf(element)

(***************************************************************************)
(* C14.  The params of an edit-config envelope are target "running",       *)
(* error-option "stop-on-error" and a config list of exactly one element   *)
(* {xmlns: namespace, root: root, <root>: payload}, the <root> key being   *)
(* there if and only if the payload is non-empty.                          *)
(***************************************************************************)
C14_EditConfigShape ==
  (built.called /\ built.operation = "edit-config") =>
    LET params == built.envelope.params
    IN  /\ params.kind = "map"
        /\ PyHas(params, "target") /\ PyGet(params, "target") = PyStr("running")
        /\ PyHas(params, "error-option")
        /\ PyGet(params, "error-option") = PyStr("stop-on-error")
        /\ PyHas(params, "config") /\ IsListOfOne(PyGet(params, "config"))
        /\ Len(params.items) = 3
        /\ LET element == TheElement(PyGet(params, "config"))
               fixed == { <<"xmlns", PyStr(built.namespace)>>, <<"root", PyStr(built.root)>> }
           IN  IF NonEmptyPayload(built.data)
                 THEN IsMapOf(element, fixed \cup { <<built.root, built.data>> })
                 ELSE IsMapOf(element, fixed)

C14_Witness ==
  /\ built.called
  /\ built.operation = "edit-config"
  /\ built.data = BlockInput
  /\ PyHas(TheElement(PyGet(built.envelope.params, "config")), built.root)

(***************************************************************************)
(* C15.  For every operation tag other than get-config and edit-config the *)
(* params are exactly {xmlns: namespace, root: root, <root>: payload}      *)
(* directly under params, <root> holding an empty object when the payload  *)
(* is absent or empty; the outer frame carries the protocol namespace, a   *)
(* message-id, the operation tag and these params.                         *)
(***************************************************************************)
C15_RpcShape ==
  (built.called /\ built.operation \notin {"get-config", "edit-config"}) =>
    /\ IsMapOf(built.envelope.params,
               { <<"xmlns", PyStr(built.namespace)>>, <<"root", PyStr(built.root)>>,
                 <<built.root, IF NonEmptyPayload(built.data) THEN built.data ELSE EmptyMap>> })
    /\ built.envelope.xmlns = ZAPI_XMLNS
    /\ built.envelope.messageId \in Nat
    /\ built.envelope.operation = built.operation

C15_Witness ==
  /\ built.called
  /\ built.operation = "action"
  /\ built.data = PyNone
  /\ PyHas(built.envelope.params, built.root)
  /\ PyGet(built.envelope.params, built.root) = EmptyMap

(***************************************************************************)
(* Notions the unwrapper properties are stated in, read off the reply      *)
(* itself: its data list, the first element of that list, the keys the     *)
(* protocol uses for metadata.                                             *)
(***************************************************************************)
Returned == unwrapped.step = "returned"
HasDataList ==
  /\ unwrapped.result.kind = "map"
  /\ PyHas(unwrapped.result, "rpc-reply")
  /\ PyGet(unwrapped.result, "rpc-reply").kind = "map"
  /\ PyHas(PyGet(unwrapped.result, "rpc-reply"), "data")
  /\ PyGet(PyGet(unwrapped.result, "rpc-reply"), "data").kind = "list"
DataList == PyGet(PyGet(unwrapped.result, "rpc-reply"), "data")
FirstElement == DataList.items[1][2]
FirstIsMapping == HasDataList /\ Len(DataList.items) >= 1 /\ FirstElement.kind = "map"
HasRootKey == PyHas(FirstElement, unwrapped.root)
MetadataKeyNames == {"xmlns", "type", "timestamp", "root", "not-modified"}
\* the positions of the element's non-metadata keys that hold a mapping
PayloadPositions ==
  { i \in 1..Len(FirstElement.items) :
      /\ FirstElement.items[i][1] \notin MetadataKeyNames
      /\ FirstElement.items[i][2].kind = "map" }

(***************************************************************************)
(* C16.  When the first data element is a mapping that contains the root   *)
(* key, the unwrapper returns exactly the value stored under that key,     *)
(* also when another non-metadata key holding a mapping comes earlier.     *)
(***************************************************************************)
C16_RootKeyValueReturned ==
  (Returned /\ FirstIsMapping /\ HasRootKey) =>
    unwrapped.out = Val(PyGet(FirstElement, unwrapped.root))

C16_Witness ==
  /\ Returned /\ FirstIsMapping /\ HasRootKey
  /\ unwrapped.root = "basic-system-info"
  /\ Len(FirstElement.items) >= 2
  /\ FirstElement.items[1] = <<"output", TokenOutput>>
  /\ unwrapped.out = Val(SystemInfo)

(***************************************************************************)
(* C17.  When the first data element is a mapping without the root key,    *)
(* the unwrapper returns the value of the first key, in the element's      *)
(* order, that is not a metadata key and holds a mapping.                  *)
(***************************************************************************)
C17_FirstPayloadMappingReturned ==
  (Returned /\ FirstIsMapping /\ ~HasRootKey) =>
    \A i \in PayloadPositions :
      (\A j \in PayloadPositions : i <= j) =>
        unwrapped.out = Val(FirstElement.items[i][2])

C17_Witness ==
  /\ Returned /\ FirstIsMapping /\ ~HasRootKey
  /\ Len(FirstElement.items) >= 2
  /\ FirstElement.items[1] = <<"timestamp", Changed>>
  /\ <<"output", TokenOutput>> \in { FirstElement.items[i] : i \in 1..Len(FirstElement.items) }
  /\ unwrapped.out = Val(TokenOutput)

(***************************************************************************)
(* C18.  When the first data element is a mapping with neither the root    *)
(* key nor a non-metadata key holding a mapping, the unwrapper returns     *)
(* that element itself, unchanged.                                         *)
(***************************************************************************)
C18_ElementReturnedUnchanged ==
  (Returned /\ FirstIsMapping /\ ~HasRootKey /\ PayloadPositions = {}) =>
    unwrapped.out = Val(FirstElement)

C18_Witness ==
  /\ Returned /\ FirstIsMapping /\ ~HasRootKey /\ PayloadPositions = {}
  /\ Len(FirstElement.items) = 3
  /\ PyHas(FirstElement, "timestamp")
  /\ unwrapped.out = Val(FirstElement)

(***************************************************************************)
(* C19.  When the data list of the reply is empty, the unwrapper returns   *)
(* an empty mapping, whatever the root argument.                           *)
(***************************************************************************)
C19_EmptyDataGivesEmptyMapping ==
  (Returned /\ HasDataList /\ Len(DataList.items) = 0) =>
    unwrapped.out = Val(EmptyMap)

C19_Witness ==
  /\ Returned /\ HasDataList /\ Len(DataList.items) = 0
  /\ unwrapped.root = "network-devices"
  /\ unwrapped.out = Val(EmptyMap)

(***************************************************************************)
(* C20.  The value the unwrapper returns is never the value stored under   *)
(* one of the metadata keys of the element, also when the root argument    *)
(* is the name of such a key.                                              *)
(***************************************************************************)
C20_MetadataNeverReturned ==
  (Returned /\ FirstIsMapping) =>
    \A k \in MetadataKeyNames :
      PyHas(FirstElement, k) => unwrapped.out # Val(PyGet(FirstElement, k))

(***************************************************************************)
(* The polling cycle as a state machine: one step per awaited operation.   *)
(***************************************************************************)
\* coordinator.py:38-40
PollStart ==
  /\ poll.step = 0
  /\ poll' = [IdlePoll EXCEPT !.step = 1, !.outcome = "running"]
  /\ UNCHANGED <<sessionVars, wireVars, builderVars, now, unwrapped, catalog, http>>

\* coordinator.py:42-89: the awaited operation returns or raises e; after
\* the last one the cycle returns its mapping (coordinator.py:73-84)
PollCall(o) ==
  /\ poll.step \in 1..Len(PollCalls)
  /\ LET i    == poll.step
         call == PollCalls[i]
         last == i = Len(PollCalls)
         next == [poll EXCEPT !.step = IF last THEN 0 ELSE i + 1,
                              !.outcome = IF last THEN "returned" ELSE "running"]
     IN  IF o = "return"
           THEN poll' = [next EXCEPT !.results[i] = "data"]
           ELSE IF Swallowed(call, o)
             THEN poll' = [next EXCEPT !.results[i] = "empty",
                                       !.raised = @ \cup {<<call, o>>}]
             ELSE poll' = [poll EXCEPT !.step = 0, !.raised = @ \cup {<<call, o>>},
                                       !.outcome = CycleFailure(o)]
  /\ UNCHANGED <<sessionVars, wireVars, builderVars, now, unwrapped, catalog, http>>

NextPoll ==
  \/ PollStart
  \/ \E o \in CallOutcomes : PollCall(o)

SpecPoll == Init /\ [][NextPoll]_vars

(***************************************************************************)
(* C21.  authenticate() looks for the token at authentication.output.token,*)
(* then at output.token, then in the other values of data[0]; it succeeds  *)
(* with the token of the first of these that yields one, and it raises the *)
(* authentication error if and only if none of the three yields a token.   *)
(***************************************************************************)
C21_AuthErrorIffNoTokenExtractable ==
  (ev.exch = "auth" /\ ev.reqRaise = "none") =>
    LET d == ev.reply.data
        yields == Truthy(d.authentication) \/ Truthy(d.output) \/ Truthy(d.other)
        first == IF Truthy(d.authentication) THEN d.authentication
                 ELSE IF Truthy(d.output) THEN d.output ELSE d.other
    IN  /\ ev.outcome = "ZapiAuthError" <=> ~yields
        /\ yields => token = first

(***************************************************************************)
(* C22.  Every authenticate request goes out with no token credential      *)
(* attached, also when authenticate() is called while a token is held.     *)
(***************************************************************************)
C22_AuthenticateSentWithoutToken ==
  ev.sent = "auth" => ev.cookie = None

(***************************************************************************)
(* C23.  After a successful authenticate whose response sets a session     *)
(* cookie, the request that follows carries both credentials: the token    *)
(* just extracted and that session cookie.                                 *)
(***************************************************************************)
C23_BothCredentialsAttached ==
  ( /\ AuthenticateSucceeded
    /\ ev.reply.setCookie # None
    /\ ev.sent = "payload" )
  => /\ token \in Tokens
     /\ ev.cookie = token
     /\ wire.sessionCookie = ev.reply.setCookie

(***************************************************************************)
(* Notions the catalog properties are stated in: the operation has built   *)
(* its envelope, it has returned, the root its envelope names, and the     *)
(* operations that read state (the other ones act on the router).          *)
(***************************************************************************)
OpBuilt(name) == catalog.step \in {"awaiting", "returned"} /\ catalog.name = name
OpReturned == catalog.step = "returned"
EnvelopeRoot ==
  IF catalog.envelope.operation = "get-config"
    THEN PyGet(TheElement(PyGet(catalog.envelope.params, "filter")), "root").s
    ELSE PyGet(catalog.envelope.params, "root").s
ReadStyleOps ==
  { "get_system_info", "get_system_state", "get_api_version", "get_current_bandwidth",
    "get_wifi_config", "is_wan_connected", "get_internet_status", "get_speed_test_result",
    "get_speed_test_history", "get_network_devices", "get_device_statistics",
    "get_nat_config", "get_parental_config", "get_mesh_devices_state", "firmware_check",
    "firmware_download_status", "firmware_upgrade_status", "get_wan_config" }
WriteStyleOps == OpNames \ ReadStyleOps
EmptyList == PyList(<<>>)

(***************************************************************************)
(* C24.  get_network_devices() sends a get-config envelope with root       *)
(* "network-devices" and returns the list under key "device" of the        *)
(* unwrapped payload; it returns an empty list when that payload is a      *)
(* mapping without the key, when the data list is empty, and when the      *)
(* payload is no mapping.                                                  *)
(***************************************************************************)
C24_NetworkDevicesList ==
  OpBuilt("get_network_devices") =>
    /\ catalog.envelope.operation = "get-config"
    /\ EnvelopeRoot = "network-devices"
    /\ OpReturned =>
         LET payload == ExtractData(catalog.result, "network-devices")
         IN  /\ (payload.err = "none" /\ payload.v.kind = "map" /\ PyHas(payload.v, "device"))
                  => catalog.out = Val(PyGet(payload.v, "device"))
             /\ (payload.err = "none" /\ payload.v.kind = "map" /\ ~PyHas(payload.v, "device"))
                  => catalog.out = Val(EmptyList)
             /\ (payload.err = "none" /\ payload.v.kind # "map")
                  => catalog.out = Val(EmptyList)
             /\ catalog.result = ReplyWith(EmptyList) => catalog.out = Val(EmptyList)

C24_Witness ==
  /\ OpBuilt("get_network_devices")
  /\ OpReturned
  /\ catalog.out = Val(PyList(<<Device, Device>>))

(***************************************************************************)
(* C25.  block_device(m, t) sends an rpc envelope with the IPv4-firewall   *)
(* namespace, root "block" and params.block equal to                       *)
(* {"input": {"mac-address": m, "lasting-time": t}}; t = 0 is kept as 0.   *)
(***************************************************************************)
C25_BlockDeviceEnvelope ==
  OpBuilt("block_device") =>
    LET params == catalog.envelope.params
    IN  /\ catalog.envelope.operation = "rpc"
        /\ params.kind = "map"
        /\ PyHas(params, "xmlns")
        /\ PyGet(params, "xmlns") = PyStr("urn:zyxel:cpe:applications:zyxel-applications-ipv4-firewall")
        /\ PyHas(params, "root") /\ PyGet(params, "root") = PyStr("block")
        /\ PyHas(params, "block")
        /\ PyGet(params, "block").kind = "map"
        /\ Len(PyGet(params, "block").items) = 1
        /\ PyHas(PyGet(params, "block"), "input")
        /\ IsMapOf(PyGet(PyGet(params, "block"), "input"),
                   { <<"mac-address", PyStr(catalog.a)>>, <<"lasting-time", PyInt(catalog.n)>> })

C25_Witness ==
  /\ OpBuilt("block_device")
  /\ catalog.n = 0
  /\ catalog.a = "AA:BB:CC:DD:EE:FF"
  /\ PyGet(PyGet(PyGet(catalog.envelope.params, "block"), "input"), "lasting-time") = PyInt(0)

(***************************************************************************)
(* C26.  Every operation that acts on the router returns the raw reply as  *)
(* received; every operation that reads state, except                      *)
(* get_network_devices, returns what the unwrapper gives for the reply and *)
(* the root the request was built with; get_network_devices returns the    *)
(* device list of that.                                                    *)
(***************************************************************************)
C26_ReturnStyles ==
  OpReturned =>
    /\ catalog.name \in WriteStyleOps => catalog.out = Val(catalog.result)
    /\ catalog.name \in ReadStyleOps \ {"get_network_devices"} =>
         catalog.out = ExtractData(catalog.result, EnvelopeRoot)
    /\ catalog.name = "get_network_devices" =>
         catalog.out = DeviceList(ExtractData(catalog.result, EnvelopeRoot))

C26_Witness ==
  /\ OpReturned
  /\ catalog.name = "get_system_info"
  /\ catalog.out = Val(SystemInfo)
  /\ catalog.out # Val(catalog.result)

\* C26 as stated: every reading operation returns the unwrapper's result
C26_ReadOpsReturnUnwrapped ==
  OpReturned =>
    /\ catalog.name \in WriteStyleOps => catalog.out = Val(catalog.result)
    /\ catalog.name \in ReadStyleOps => catalog.out = ExtractData(catalog.result, EnvelopeRoot)

\* ---------------------------------------------------------------------------
\* C27: close() never closes a session supplied by the caller; it closes
\* only sessions the client created itself, and right after close() no
\* session created by the client is still open.
C27_CloseOnlyOwnSessions ==
  /\ CallerSession \notin http.closedByClose
  /\ http.closedByClose \subseteq http.made
  /\ http.last = "close" => http.made \cap http.open = {}

\* the caller closed the session it supplied, a request made the client
\* create its own, and close() has closed that one
C27_Witness ==
  /\ CallerSession \notin http.open
  /\ http.made # {}
  /\ http.closedByClose = http.made
  /\ http.last = "close"


(***************************************************************************)
(* C28.  With calls overlapping on one client, the token held is at every  *)
(* point either absent or the token of the successful authenticate that    *)
(* completed last: never the token of an earlier one, never a value no     *)
(* authenticate returned.                                                  *)
(***************************************************************************)
C28_LastAuthenticateWins ==
  token # None => (token = lastIssued /\ token \in issued)

\* two authenticates have succeeded with different tokens while another
\* call's request, sent with the older token, is still in flight
C28_Witness ==
  /\ issued = Tokens
  /\ token = lastIssued
  /\ token \in Tokens
  /\ \E t \in Tasks : pc[t] \in PayPcs /\ cookie[t] \in Tokens /\ cookie[t] # token


(***************************************************************************)
(* C29.  When the router answers the authenticate request with a failure   *)
(* reply (a result other than "ok", whatever the error tag) or with HTTP   *)
(* 401, authenticate() raises the authentication error, not the generic    *)
(* one.                                                                    *)
(***************************************************************************)
C29_RejectedCredentialsRaiseAuthError ==
  ( /\ ev.exch = "auth"
    /\ ev.reply.xfer = "response"
    /\ ev.reply.body = "object"
    /\ ev.reply.status = HTTP_UNAUTHORIZED \/ ErrorReply(ev.reply) )
  => ev.outcome = "ZapiAuthError"

(***************************************************************************)
(* C30.  In the polling cycle, an error raised by any client operation     *)
(* called during the cycle makes the whole cycle fail: a cycle in which an *)
(* operation raised never returns a mapping, and no error is turned into   *)
(* an empty result of that mapping.                                        *)
(***************************************************************************)
C30_AnyClientErrorFailsCycle ==
  poll.outcome = "returned" =>
    /\ poll.raised = {}
    /\ \A i \in 1..Len(PollCalls) : poll.results[i] # "empty"

(***************************************************************************)
(* C31.  Once a config entry has been unloaded, no HTTP session its client *)
(* created is still open.                                                  *)
(***************************************************************************)
C31_UnloadReleasesSession ==
  http.unloaded => http.made \cap http.open = {}

(***************************************************************************)
(* C32.  The envelope builder is a function of its arguments and of the    *)
(* message-id: a build sends nothing and leaves the token, the cookie jar  *)
(* and the HTTP session as they are, and two builds in a row with equal    *)
(* operation, namespace, root, payload, source and edit operation and      *)
(* equal message-id give equal envelopes.                                  *)
(***************************************************************************)
SameFourInputs ==
  /\ built'.operation = built.operation
  /\ built'.namespace = built.namespace
  /\ built'.root = built.root
  /\ built'.data = built.data

TwoBuildsSameId ==
  built.called /\ built'.called /\ built'.envelope.messageId = built.envelope.messageId

BuildFrame ==
  built' # built => UNCHANGED <<token, jar, http, sentIds, wire, issued, pc>>

NonAuthFailure(r) ==
  \/ r.xfer = "ClientError"
  \/ r.xfer = "response" /\ r.body = "object" /\ r.status \notin {HTTP_OK, HTTP_UNAUTHORIZED}
  \/ r.xfer = "response" /\ r.body = "object" /\ r.status = HTTP_OK /\ ErrorReply(r)
       /\ ~IsAuthTag(r.tag)

C33_NonAuthErrorKeepsToken ==
  (Exchanged /\ NonAuthFailure(ev.reply)) =>
    /\ ev.reqRaise = "ZapiError"
    /\ token = ev.tokenBefore

C33_Witness ==
  /\ Exchanged
  /\ ev.exch = "payload"
  /\ ev.reply.xfer = "response" /\ ev.reply.status = HTTP_OK /\ ErrorReply(ev.reply)
  /\ ~IsAuthTag(ev.reply.tag)
  /\ ev.tokenBefore \in Tokens
  /\ token = ev.tokenBefore
  /\ ev.outcome = "ZapiError"

(***************************************************************************)
(* C34.  With calls overlapping, an authentication failure clears the      *)
(* token only when the failed request carried the token that is held: the  *)
(* late failure of a payload request sent with an older token leaves a     *)
(* newer token, installed since by another call, in place.                 *)
(***************************************************************************)
StaleAuthFailure(t) ==
  /\ pc[t] \in PayPcs
  /\ pc'[t] # pc[t]
  /\ ev'.exch = "payload"
  /\ AuthFailureReply(ev'.reply)
  /\ token \in Tokens
  /\ cookie[t] # token

C34_StaleFailureKeepsNewerToken ==
  [][\A t \in Tasks : StaleAuthFailure(t) => token' = token]_vars

(***************************************************************************)
(* C35.  One authenticated call puts at most four requests on the wire: at *)
(* most two authenticate requests (one because no token is held when the   *)
(* call starts, one after an authentication failure of the first payload   *)
(* attempt) and at most two sends of the payload, the second only after    *)
(* the re-authenticate succeeded.                                          *)
(***************************************************************************)
C35_AtMostFourRequests ==
  /\ \A t \in Tasks : nAuth[t] <= 2 /\ nPay[t] <= 2
  /\ ev.nAuth <= 2 /\ ev.nPay <= 2
  /\ (ev.sent = "auth" /\ ev.type = "call") => (ev.tokenBefore = None /\ ev.nAuth = 1)
  /\ (ev.sent = "auth" /\ ev.type = "response") =>
        /\ ev.pc = "pay1"
        /\ AuthFailureReply(ev.reply)
        /\ ev.nPay = 1
  /\ (ev.sent = "payload" /\ ev.nPay = 2) =>
        /\ ev.pc = "auth2"
        /\ ev.exch = "auth"
        /\ ev.reqRaise = "none"
        /\ token \in Tokens

\* a call that made all four: it started without a token, and its first
\* payload attempt met an authentication failure
C35_Witness ==
  /\ ev.sent = "payload"
  /\ ev.nAuth = 2
  /\ ev.nPay = 2
  /\ ev.pcAfter = "pay2"

(***************************************************************************)
(* C36.  When the authenticate a call makes fails, for whatever reason,    *)
(* the call raises that error at once.  After a failed first authenticate  *)
(* (no token was held) the payload is never sent and no second             *)
(* authenticate is made; after a failed re-authenticate the payload is not *)
(* sent again.                                                             *)
(***************************************************************************)
TokenFound(r) ==
  LET d == r.data
      first == IF d.authentication # Missing THEN d.authentication
               ELSE IF d.output # Missing THEN d.output
               ELSE d.other
  IN  first \in Tokens

AuthenticateFailedWith ==
  IF RequestRaise(ev.reply) # "none" THEN RequestRaise(ev.reply)
  ELSE IF ~TokenFound(ev.reply) THEN "ZapiAuthError"
  ELSE "none"

C36_FailedAuthenticateEndsCall ==
  (ev.exch = "auth" /\ ev.pc \in {"auth1", "auth2"} /\ AuthenticateFailedWith # "none") =>
    /\ ev.outcome = AuthenticateFailedWith
    /\ ev.pcAfter = "idle"
    /\ ev.sent = "none"
    /\ ev.pc = "auth1" => (ev.nAuth = 1 /\ ev.nPay = 0)
    /\ ev.pc = "auth2" => ev.nPay = 1

\* the first authenticate of a call got an authentication failure
C36_Witness ==
  /\ ev.exch = "auth"
  /\ ev.pc = "auth1"
  /\ AuthFailureReply(ev.reply)
  /\ ev.outcome = "ZapiAuthError"
  /\ ev.nPay = 0

(***************************************************************************)
(* C37.  In authenticate() the extraction stops at the first reply shape   *)
(* whose path resolves, whatever value it holds: when that value is empty  *)
(* or null, authenticate raises ZapiAuthError and sets no token, also when *)
(* a later shape holds a non-empty token.                                  *)
(***************************************************************************)
FirstResolved(d) ==
  IF d.authentication # Missing THEN d.authentication
  ELSE IF d.output # Missing THEN d.output
  ELSE d.other

LaterShapeHoldsToken(d) ==
  \/ d.authentication # Missing /\ (d.output \in Tokens \/ d.other \in Tokens)
  \/ d.authentication = Missing /\ d.output # Missing /\ d.other \in Tokens

C37_ExtractionStopsAtFirstResolved ==
  ( /\ ev.exch = "auth"
    /\ RequestRaise(ev.reply) = "none"
    /\ FirstResolved(ev.reply.data) \in {"", None} )
  => /\ ev.outcome = "ZapiAuthError"
     /\ token = ev.tokenBefore
     /\ ev.sent = "none"

C37_Witness ==
  /\ ev.exch = "auth"
  /\ RequestRaise(ev.reply) = "none"
  /\ ev.reply.data.authentication = None
  /\ LaterShapeHoldsToken(ev.reply.data)
  /\ ev.outcome = "ZapiAuthError"
  /\ token = None

(***************************************************************************)
(* C38.  The unwrapper is total: whatever the shape of the reply (no       *)
(* rpc-reply or data key, a data value that is no list, a first data       *)
(* element that is a list, a number or null), it returns a value and never *)
(* raises.                                                                 *)
(***************************************************************************)
C38_UnwrapperNeverRaises ==
  Returned => unwrapped.out.err = "none"

(***************************************************************************)
(* C39.  close() is idempotent: a close() that follows a close() closes no *)
(* session and leaves the client as the first one left it; on a client     *)
(* that never sent a request, close() closes nothing.                      *)
(***************************************************************************)
SecondClose == http.last = "close" /\ http'.last = "close" /\ http' # http

C39_CloseIdempotent ==
  [][ /\ SecondClose =>
           /\ http'.session = http.session
           /\ http'.own_session = http.own_session
           /\ http'.open = http.open
           /\ http'.closedByClose = http.closedByClose
           /\ http'.closeCalls = http.closeCalls
      /\ (http.made = {} /\ http'.last = "close") =>
           /\ http'.open = http.open
           /\ http'.closeCalls = 0 ]_vars

\* close() twice in a row after the client made its session, as on the
\* success path of the config flow (config_flow.py:60, 67)
C39_Witness ==
  /\ http.last = "close"
  /\ http.before = "close"
  /\ http.made # {}
  /\ http.closeCalls = 1
  /\ http.closedByClose = http.made

====
